---- MODULE Spec2Model ----
(***************************************************************************)
(* Ruida UDP tooling: the sender (src/src/udpsendruida.py, class RuidaUdp) *)
(* and the relay draft (src/RudiaProxy/RuidaProxy.py).                     *)
(*                                                                         *)
(* Bytes are naturals 0..255, a bytes object is a sequence of bytes, a     *)
(* datagram is the sequence of bytes handed to sock.send.  Delays are in   *)
(* milliseconds (0.2 s = 200, 5.0 s = 5000); doubling and the comparison   *)
(* with the maximum behave on these integers as on the floats of the code. *)
(***************************************************************************)
EXTENDS Integers, Sequences, FiniteSets, TLC

(***************************************************************************)
(* Bounds of the model                                                     *)
(***************************************************************************)
MaxLen == 3        \* longest enumerated job, in bytes
MaxMTU == 2        \* largest enumerated MTU for the enumerated jobs
MaxNacks == 8      \* cap on consecutive NACKs the peer gives the first chunk
MaxDatagrams == 3  \* datagrams sent to the relay's port in one run
MaxTime == 12000   \* the clock stops here, in ms
TickStep == 6000   \* the clock advances in steps of this many ms

(***************************************************************************)
(* Program constants                                                       *)
(***************************************************************************)
MTU == 1470                    \* RuidaUdp.MTU
ACK == 198                     \* 0xc6
NACK == 70                     \* 0x46
retry_delay_sec_init == 200    \* retry_delay_sec = 0.2
retry_delay_sec_max == 5000    \* retry_delay_sec_max = 5.0

BUSY_TIMEOUT == 10000         \* RuidaProxyServer.BUSY_TIMEOUT
FIN_TOKEN == 215               \* RuidaProxyServer.FIN_TOKEN, 0xd7

ByteVals == {0, 255}
UnknownByte == 0               \* a response byte that is neither ACK nor NACK

(***************************************************************************)
(* Pure helpers                                                            *)
(***************************************************************************)
Min(a, b) == IF a < b THEN a ELSE b

\* sum(...) of a bytes object: s[lo] + ... + s[hi], split in halves so that the
\* evaluation depth stays logarithmic for a 1470-byte chunk
RECURSIVE SumRange(_, _, _)
SumRange(s, lo, hi) ==
    IF lo > hi THEN 0
    ELSE IF lo = hi THEN s[lo]
    ELSE LET mid == (lo + hi) \div 2
         IN  SumRange(s, lo, mid) + SumRange(s, mid + 1, hi)

SumSeq(s) == SumRange(s, 1, Len(s))

RECURSIVE Flatten(_)
Flatten(ss) == IF ss = <<>> THEN <<>> ELSE Head(ss) \o Flatten(Tail(ss))

\* Python slice data[a:b] for 0 <= a, clipped at len(data)
Slice(d, a, b) == SubSeq(d, a + 1, Min(b, Len(d)))

\* Checksum with a fault: both bytes are taken from the high half of the sum
ChecksumHighTwice(d, st, length) ==
    LET cs == SumSeq(Slice(d, st, st + length))
        b0 == (cs \div 256) % 256
    IN  <<b0, b0>>

\* Checksum with a fault: the high byte is not masked to 8 bits
ChecksumNoMask(d, st, length) ==
    LET cs == SumSeq(Slice(d, st, st + length))
    IN  <<cs \div 256, cs % 256>>

\* RuidaUdp._checksum(data, start, length)
Checksum(d, st, length) ==
    LET cs == SumSeq(Slice(d, st, st + length))
        b1 == cs % 256
        b0 == (cs \div 256) % 256
    IN  <<b0, b1>>

\* write, lines 71-73: chunk_sz = l - start, capped at MTU
\* ChunkSz with a fault: the cap is missing
ChunkSzNoCap(l, st, m) == l - st
ChunkSz(l, st, m) == IF l - st > m THEN m ELSE l - st

\* Buf with a fault: the slice ends one byte late
BufOverlap(d, st, m) ==
    LET sz == ChunkSz(Len(d), st, m)
    IN  Checksum(d, st, sz) \o Slice(d, st, st + sz + 1)

\* write, lines 74-75: buf = chksum + data[start:start+chunk_sz]
Buf(d, st, m) ==
    LET sz == ChunkSz(Len(d), st, m)
    IN  Checksum(d, st, sz) \o Slice(d, st, st + sz)

\* write, line 76: retry=(start == 0)
\* RetryFlag with a fault: no chunk is retried; every chunk is retried
RetryNever(st) == FALSE
RetryAlways(st) == TRUE
RetryFlag(st) == (st = 0)

\* send, line 101: if retry_delay_sec < retry_delay_sec_max: retry_delay_sec *= 2
NextDelay(d) == IF d < retry_delay_sec_max THEN d * 2 ELSE d

(***************************************************************************)
(* State                                                                   *)
(***************************************************************************)
VARIABLES
    \* sender: RuidaUdp.write / RuidaUdp.send
    data,             \* the job given to write(data)
    mtu,              \* self.MTU of this run
    start,            \* write: start
    pc,               \* "write" (line 70), "recv" (blocked in line 88),
                      \* "sleep" (in time.sleep, line 100), "done",
                      \* "IOError" (raised in line 103), "OSError" (raised by
                      \* sock.send in line 86)
    ary,              \* send: the datagram being delivered
    retry,            \* send: retry
    retry_delay_sec,  \* send: retry_delay_sec, in ms
    sent,             \* every datagram passed to sock.send, in order
    sentAt,           \* write's start offset at each of these transmissions
    resp,             \* the outcome of sock.recv after each transmission
    slept,            \* every delay passed to time.sleep in line 100, in ms
    \* relay: a run of RuidaProxy.py and what the outside sees of it
    relay_pc,         \* "start" (python3 RuidaProxy.py was invoked) or the
                      \* exception that ended the process
    proxy_busy,       \* the value of proxy.busy, if the attribute exists
    proxy_output,     \* the tuple (file, sender_addr, name) in proxy.output,
                      \* if there is one
    files,            \* capture files on disk: name -> content written
    refused,          \* datagrams sent to port 50200, in order; no socket is
                      \* bound to the port, so each one is refused
    replies,          \* single-byte responses the relay has sent: [to, byte]
    laser_out,        \* datagrams the relay has sent to the laser-facing side
    now               \* the time, in ms

senderVars == <<data, mtu, start, pc, ary, retry, retry_delay_sec,
                sent, sentAt, resp, slept>>
relayVars == <<relay_pc, proxy_busy, proxy_output, files, refused, replies,
               laser_out, now>>
vars == <<senderVars, relayVars>>

RECURSIVE SeqsUpTo(_)
SeqsUpTo(n) ==
    IF n = 0 THEN {<<>>}
    ELSE LET shorter == SeqsUpTo(n - 1)
         IN  shorter \cup {Append(s, b) : s \in {t \in shorter : Len(t) = n - 1},
                                          b \in ByteVals}

\* the job of spec section 8.7: 3000 bytes, sent with the default MTU
ScenarioJob == [i \in 1..3000 |-> 255]

SenderInit ==
    /\ \/ (mtu \in 1..MaxMTU /\ data \in SeqsUpTo(MaxLen))
       \/ (mtu = MTU /\ data = ScenarioJob)
    /\ start = 0
    /\ pc = "write"
    /\ ary = <<>>
    /\ retry = FALSE
    /\ retry_delay_sec = retry_delay_sec_init
    /\ sent = <<>>
    /\ sentAt = <<>>
    /\ resp = <<>>
    /\ slept = <<>>

\* python3 RuidaProxy.py has been invoked and no statement has run: there is
\* no proxy object, no attribute, no bound socket and no capture file
RelayInit ==
    /\ relay_pc = "start"
    /\ proxy_busy = {}
    /\ proxy_output = {}
    /\ files = <<>>
    /\ refused = <<>>
    /\ replies = <<>>
    /\ laser_out = <<>>
    /\ now = 0

(***************************************************************************)
(* Sender: RuidaUdp.write and RuidaUdp.send                                *)
(***************************************************************************)
\* write lines 70-76 and send lines 80-86: the loop test passes, the chunk is
\* built and send() calls sock.send for the first time.  Either the datagram
\* is transmitted and the sender blocks in recv, or sock.send raises OSError
\* (connection refused, network unreachable): line 86 is outside the try, so
\* nothing is transmitted and the exception leaves send and write.
WriteChunk ==
    /\ pc = "write"
    /\ start < Len(data)
    /\ ary' = Buf(data, start, mtu)
    /\ retry' = RetryFlag(start)
    /\ retry_delay_sec' = retry_delay_sec_init
    /\ \/ /\ sent' = Append(sent, ary')
          /\ sentAt' = Append(sentAt, start)
          /\ pc' = "recv"
       \/ /\ pc' = "OSError"
          /\ UNCHANGED <<sent, sentAt>>
    /\ UNCHANGED <<data, mtu, start, resp, slept, relayVars>>

\* write line 70: the loop test fails, write returns
WriteReturn ==
    /\ pc = "write"
    /\ ~(start < Len(data))
    /\ pc' = "done"
    /\ UNCHANGED <<data, mtu, start, ary, retry, retry_delay_sec,
                   sent, sentAt, resp, slept, relayVars>>

\* outcomes of sock.recv(8): the bytes of a response datagram, or the timeout
\* exception
Timeout == [exc |-> TRUE, bytes |-> <<>>]
Got(bs) == [exc |-> FALSE, bytes |-> bs]

\* IsNack with a fault: a timeout or an empty response counts as a NACK
IsNackOrSilent(r) == r.exc \/ Len(r.bytes) = 0 \/ r.bytes[1] = NACK

\* send lines 89-97: no exception, at least one byte, and data[0] == 0x46
IsNack(r) == ~r.exc /\ Len(r.bytes) # 0 /\ r.bytes[1] = NACK

\* send lines 87-109 after a transmission, up to the next place where send
\* waits or to its end: the outcome r of sock.recv is classified.
\*   89-91 exception: print, break        93-95 no bytes: break
\*   97-103 first byte 0x46: with retry, time.sleep(retry_delay_sec) begins
\*          (line 100) and the sender waits in it, the chunk not yet
\*          transmitted again; without retry raise IOError, which leaves send
\*          and write
\*   104-109 0xc6 or any other first byte: break
\* After a break send returns and write line 77 advances start.
Recv(r) ==
    /\ pc = "recv"
    /\ resp' = Append(resp, r)
    /\ IF IsNack(r)
       THEN IF retry
            THEN /\ slept' = Append(slept, retry_delay_sec)
                 /\ pc' = "sleep"
                 /\ UNCHANGED start
            ELSE /\ pc' = "IOError"
                 /\ UNCHANGED <<slept, start>>
       ELSE /\ start' = start + ChunkSz(Len(data), start, mtu)
            /\ pc' = "write"
            /\ UNCHANGED slept
    /\ UNCHANGED <<data, mtu, ary, retry, retry_delay_sec, sent, sentAt,
                   relayVars>>

\* send lines 100-101 and 85-86: time.sleep returns, the delay is doubled if
\* it is below retry_delay_sec_max, and the loop calls sock.send(ary) again:
\* the datagram is transmitted and the sender blocks in recv, or sock.send
\* raises OSError, uncaught, and nothing is transmitted
SleepReturns ==
    /\ pc = "sleep"
    /\ retry_delay_sec' = NextDelay(retry_delay_sec)
    /\ \/ /\ sent' = Append(sent, ary)
          /\ sentAt' = Append(sentAt, start)
          /\ pc' = "recv"
       \/ /\ pc' = "OSError"
          /\ UNCHANGED <<sent, sentAt>>
    /\ UNCHANGED <<data, mtu, start, ary, retry, resp, slept, relayVars>>

\* the peer stays silent for NETWORK_TIMEOUT
RecvTimeout ==
    /\ pc = "recv"
    /\ Recv(Timeout)

\* the peer answers with an empty datagram
RecvEmpty ==
    /\ pc = "recv"
    /\ Recv(Got(<<>>))

\* the peer answers 0xc6
RecvAck ==
    /\ pc = "recv"
    /\ Recv(Got(<<ACK>>))

\* the peer answers a byte that is neither 0xc6 nor 0x46
RecvUnknown ==
    /\ pc = "recv"
    /\ Recv(Got(<<UnknownByte>>))

\* the peer answers 0x46.  send() has no retry counter and retries for as long
\* as the peer NACKs; the model stops the peer after MaxNacks NACKs of the
\* first chunk
RecvNack ==
    /\ retry => Len(slept) < MaxNacks
    /\ Recv(Got(<<NACK>>))

Init == SenderInit /\ RelayInit

Next ==
    \/ WriteChunk
    \/ WriteReturn
    \/ RecvTimeout
    \/ RecvEmpty
    \/ RecvAck
    \/ RecvUnknown
    \/ RecvNack
    \/ SleepReturns

Spec == Init /\ [][Next]_vars

\* the sender never stays in one place: sock.recv returns or raises within
\* NETWORK_TIMEOUT (line 57), time.sleep returns, and the loops go on
\* (checked for the enumerated jobs)
FairInit == Init /\ Len(data) <= MaxLen

FairSpec == FairInit /\ [][Next]_vars /\ WF_vars(Next)

(***************************************************************************)
(* Relay: a run of RuidaProxy.py                                           *)
(*                                                                         *)
(* The suites of the if of line 88, the else of line 91 and the if of      *)
(* line 95 are empty, so Python rejects the file when it compiles it:      *)
(* IndentationError, exit status 1, before the first statement.  No        *)
(* statement of the class or of the loop ever runs: the sockets of lines   *)
(* 53-59 are never bound, proxy.busy and proxy.output never exist, nothing *)
(* is received, answered, forwarded or written.  A datagram sent to port   *)
(* 50200 finds no socket and is refused.                                   *)
(***************************************************************************)
Addrs == {"A", "B"}
RelayPayloads == {<<1>>, <<1, FIN_TOKEN, 2>>}

\* the interpreter compiles the file and ends with IndentationError (reported
\* for line 91: expected an indented block after the if of line 88)
Compile ==
    /\ relay_pc = "start"
    /\ relay_pc' = "IndentationError"
    /\ UNCHANGED <<proxy_busy, proxy_output, files, refused, replies, laser_out,
                   now, senderVars>>

\* a sender transmits a datagram to the relay's port (DEST_PORT, line 43);
\* before and after the end of the process no socket is bound to it
SendToRelay ==
    /\ Len(refused) < MaxDatagrams
    /\ \E a \in Addrs, p \in RelayPayloads :
         refused' = Append(refused, [addr |-> a, data |-> p, at |-> now])
    /\ UNCHANGED <<relay_pc, proxy_busy, proxy_output, files, replies,
                   laser_out, now, senderVars>>

\* time passes
Tick ==
    /\ now < MaxTime
    /\ now' = now + TickStep
    /\ UNCHANGED <<relay_pc, proxy_busy, proxy_output, files, refused, replies,
                   laser_out, senderVars>>

RelaySpecInit ==
    /\ RelayInit
    /\ SenderInit
    /\ data = <<>>
    /\ mtu = 1

RelayNext ==
    \/ Compile
    \/ SendToRelay
    \/ Tick

\* the interpreter does not wait: an invoked run goes on to compile the file
RelaySpec ==
    /\ RelaySpecInit
    /\ [][RelayNext]_vars
    /\ WF_vars(Compile)

(***************************************************************************)
(* Sender properties                                                       *)
(***************************************************************************)
Payload(dgram) == SubSeq(dgram, 3, Len(dgram))
CeilDiv(a, b) == (a + b - 1) \div b

\* payloads of the transmissions answered with ACK, in transmission order
RECURSIVE AckedPayloads(_)
AckedPayloads(i) ==
    IF i > Len(resp) THEN <<>>
    ELSE (IF resp[i] = Got(<<ACK>>) THEN <<Payload(sent[i])>> ELSE <<>>)
         \o AckedPayloads(i + 1)

\* write returned and every chunk was ACKed (the first one possibly after NACKs)
AllAcked ==
    /\ pc = "done"
    /\ \A i \in 1..Len(resp) : resp[i] \in {Got(<<ACK>>), Got(<<NACK>>)}

\* C2 (as claimed): a transmission of a new chunk only follows an ACK of the
\* chunk before it; chunk N+1 is never on the wire unless chunk N was ACKed.
C2_SequentialAfterAck ==
    \A i \in 2..Len(sent) :
        sentAt[i] # sentAt[i - 1] => resp[i - 1] = Got(<<ACK>>)

\* C3: a NACK answering a chunk other than the first ends the transfer with
\* IOError at once: it is the last response, the NACKed transmission is the
\* last transmission (no retransmission, no later chunk) and nothing is slept.
C3_NackFatal ==
    \A i \in 1..Len(resp) :
        (resp[i] = Got(<<NACK>>) /\ sentAt[i] # 0) =>
            /\ pc = "IOError"
            /\ Len(resp) = i
            /\ Len(sent) = i
C3_Witness ==
    /\ pc = "IOError"
    /\ Len(resp) >= 2
    /\ resp[Len(resp)] = Got(<<NACK>>)
    /\ sentAt[Len(sent)] # 0

\* C4: after n NACKs in a row to the first chunk it has been transmitted n+1
\* times (n times while the sender still sleeps before the n-th retry, or
\* when the sock.send of that retry failed and ended the transfer),
\* always with the same bytes; if the next answer is ACK these n+1 are all its
\* transmissions and the next datagram, if any, is the second chunk.
C4_FirstChunkRetry ==
    LET first == Buf(data, 0, mtu)
    IN  \A n \in 0..Len(resp) :
          (Len(sent) >= 1 /\ \A j \in 1..n : resp[j] = Got(<<NACK>>)) =>
            /\ Len(sent) >= n
            /\ Len(sent) >= n + 1 \/ (pc \in {"sleep", "OSError"} /\ Len(resp) = n)
            /\ \A j \in 1..Min(n + 1, Len(sent)) :
                 sentAt[j] = 0 /\ sent[j] = first
            /\ (Len(resp) > n /\ resp[n + 1] = Got(<<ACK>>)) =>
                 /\ \A j \in (n + 2)..Len(sent) : sentAt[j] # 0
                 /\ Len(sent) > n + 1 =>
                      /\ sentAt[n + 2] = ChunkSz(Len(data), 0, mtu)
                      /\ sent[n + 2] = Buf(data, sentAt[n + 2], mtu)
C4_Witness ==
    /\ Len(resp) >= 4
    /\ SubSeq(resp, 1, 4) = <<Got(<<NACK>>), Got(<<NACK>>), Got(<<NACK>>), Got(<<ACK>>)>>
    /\ Len(sent) >= 5
    /\ sentAt[5] # 0

\* C5 (as claimed): the delays slept before the retries start at 200 ms, never
\* decrease and never exceed the 5000 ms ceiling.
C5_BackoffBounds ==
    \A k \in 1..Len(slept) :
        /\ k = 1 => slept[k] = retry_delay_sec_init
        /\ k > 1 => slept[k] >= slept[k - 1]
        /\ slept[k] <= retry_delay_sec_max

\* C6: when write returns with every chunk ACKed, the payloads of the ACKed
\* datagrams, concatenated in order, are the job, and their number is
\* ceil(len/MTU), zero for the empty job.
C6_ChunkCoverage ==
    AllAcked =>
        /\ Flatten(AckedPayloads(1)) = data
        /\ Len(AckedPayloads(1)) = CeilDiv(Len(data), mtu)
        /\ data = <<>> => AckedPayloads(1) = <<>>
C6_Witness ==
    /\ AllAcked
    /\ Len(data) = 3
    /\ mtu = 2
    /\ resp = <<Got(<<NACK>>), Got(<<ACK>>), Got(<<ACK>>)>>

\* C7: every datagram carries 1..MTU payload bytes, and exactly MTU unless it
\* is the last chunk of the job; nothing is sent for the empty job; a job whose
\* length is a multiple of MTU ends with a full chunk; 3000 bytes with MTU 1470
\* travel as 1470, 1470, 60.
C7_ChunkSizes ==
    /\ \A i \in 1..Len(sent) :
         LET n == Len(Payload(sent[i]))
         IN  /\ Len(sent[i]) = n + 2
             /\ 1 <= n /\ n <= mtu
             /\ sentAt[i] + n <= Len(data)
             /\ sentAt[i] + n < Len(data) => n = mtu
    /\ data = <<>> => sent = <<>>
    /\ (pc = "done" /\ data # <<>> /\ Len(data) % mtu = 0) =>
         Len(Payload(sent[Len(sent)])) = mtu
    /\ (pc = "done" /\ data = ScenarioJob /\ mtu = MTU
          /\ resp = <<Got(<<ACK>>), Got(<<ACK>>), Got(<<ACK>>)>>) =>
         [i \in 1..Len(sent) |-> Len(Payload(sent[i]))] = <<1470, 1470, 60>>
C7_Witness ==
    /\ pc = "done"
    /\ data = ScenarioJob
    /\ mtu = MTU
    /\ resp = <<Got(<<ACK>>), Got(<<ACK>>), Got(<<ACK>>)>>

(***************************************************************************)
(* Relay properties                                                        *)
(*                                                                         *)
(* The claims are stated on what a sender and the laser side can observe:  *)
(* the datagrams sent to the relay, the responses, the forwarded datagrams *)
(* and the capture files, together with proxy.busy and proxy.output.       *)
(***************************************************************************)
\* the claims' condition on a payload: it contains the byte 0xD7
HasEndToken(d) == \E i \in 1..Len(d) : d[i] = FIN_TOKEN

Busy == TRUE \in proxy_busy
Owner(a) == \E o \in proxy_output : o.addr = a

Answered(a, byte) ==
    \E i \in 1..Len(replies) : replies[i] = [to |-> a, byte |-> byte]

IsPrefix(p, d) == Len(p) <= Len(d) /\ SubSeq(d, 1, Len(p)) = p

\* the first datagram of a run reaches a relay that is Idle: it starts a
\* session; this one carries no end token, so the session stays open
Started == refused # <<>> /\ ~HasEndToken(refused[1].data)

\* a second datagram comes from another sender while the session is open
Intruder ==
    /\ Started
    /\ Len(refused) >= 2
    /\ refused[2].addr # refused[1].addr

\* C1 (as claimed): once a datagram of A has made the session Busy, a
\* datagram of B that arrives before end token and timeout is answered with
\* NACK.
C1_AtMostOneOwner ==
    [](( /\ Intruder
         /\ refused[2].at - refused[1].at <= BUSY_TIMEOUT) =>
          <>Answered(refused[2].addr, NACK))

\* C8 (as claimed): a datagram that starts a session and contains 0xD7 is
\* written to the sink and ACKed and leaves the session Idle with no owner;
\* one without 0xD7 leaves the session Busy.
C8_EndToken ==
    /\ []((refused # <<>> /\ HasEndToken(refused[1].data)) =>
            <>(/\ files # <<>>
               /\ files[1].content = refused[1].data
               /\ Answered(refused[1].addr, ACK)
               /\ ~Busy
               /\ proxy_output = {}))
    /\ [](Started => <>Busy)

\* C9 (as claimed): a busy session that saw nothing for more than the timeout
\* is taken over by the next datagram of another sender: that sender becomes
\* the owner and is ACKed, after an end token was sent to the laser side.
C9_TimeoutSupersession ==
    [](( /\ Intruder
         /\ ~HasEndToken(refused[2].data)
         /\ refused[2].at - refused[1].at > BUSY_TIMEOUT) =>
          <>(/\ Busy
             /\ Owner(refused[2].addr)
             /\ Answered(refused[2].addr, ACK)
             /\ \E i \in 1..Len(laser_out) : HasEndToken(laser_out[i])))

\* C10 (as claimed): a datagram sent to the Idle relay (here the first of the
\* run) makes the session Busy and owned by its sender, is written to a fresh
\* sink and is answered with ACK.
C10_SessionStart ==
    [](Started =>
         <>(/\ Busy
            /\ Owner(refused[1].addr)
            /\ files # <<>>
            /\ IsPrefix(refused[1].data, files[1].content)
            /\ Answered(refused[1].addr, ACK)))

(***************************************************************************)
(* Sender properties: wire format                                          *)
(***************************************************************************)
LastSent == sent[Len(sent)]

\* C11: every datagram on the wire is [hi][lo][payload] with hi and lo bytes,
\* hi * 256 + lo the sum of the payload bytes modulo 2^16, and the payload
\* the slice of the job at the chunk's offset; also when the sum is above
\* 65535.  (Every datagram is the last one sent in the state after its
\* transmission.)
C11_WireFormat ==
    sent # <<>> =>
        LET hi == LastSent[1]
            lo == LastSent[2]
            at == sentAt[Len(sent)]
            payload == Payload(LastSent)
        IN  /\ hi \in 0..255
            /\ lo \in 0..255
            /\ hi * 256 + lo = SumSeq(payload) % 65536
            /\ payload = SubSeq(data, at + 1, at + Len(payload))
C11_Witness ==
    /\ pc = "recv"
    /\ data = ScenarioJob
    /\ SumSeq(Payload(ary)) = 374850
    /\ LastSent = ary
    /\ SubSeq(ary, 1, 2) = <<184, 66>>

\* what a receiver reads in the two prefix bytes of a chunk: a 16-bit number,
\* high byte first
PrefixValue(chunk) == chunk[1] * 256 + chunk[2]

\* what a receiver gets when it recomputes the checksum over a payload: the
\* sum of its bytes, truncated to 16 bits
Recomputed(payload) == SumSeq(payload) % 65536

\* the byte values tried at one position: all of them for a short payload, a
\* sample for a long one
OtherBytes(payload, i) ==
    (IF Len(payload) <= 8 THEN 0..255 ELSE {0, 1, 128, 254}) \ {payload[i]}

\* the positions tried: first, middle and last (all of them up to 3 bytes)
Positions(payload) ==
    {1, (Len(payload) + 1) \div 2, Len(payload)} \cap (1..Len(payload))

\* C12: the two bytes _checksum put in front of the chunk are bytes, and read
\* as a number they equal the checksum recomputed over the payload portion of
\* the chunk; with the value of one payload byte changed (prefix kept) the
\* recomputed checksum no longer equals the prefix.
C12_ChecksumRoundTrip ==
    pc = "recv" =>
        /\ Len(ary) >= 2
        /\ ary[1] \in 0..255
        /\ ary[2] \in 0..255
        /\ PrefixValue(ary) = Recomputed(Payload(ary))
        /\ \A i \in Positions(Payload(ary)) :
             \A v \in OtherBytes(Payload(ary), i) :
                PrefixValue(ary) # Recomputed([Payload(ary) EXCEPT ![i] = v])
C12_Witness ==
    /\ pc = "recv"
    /\ Payload(ary) = <<255, 0>>
    /\ SubSeq(ary, 1, 2) = <<0, 255>>
    /\ PrefixValue(ary) = Recomputed(<<255, 0>>)
    /\ PrefixValue(ary) # Recomputed(<<255, 255>>)

(***************************************************************************)
(* Relay properties: forwarding, persistence, activity, responses          *)
(***************************************************************************)
AcksSent == Cardinality({i \in 1..Len(replies) : replies[i].byte = ACK})

\* C13 (as claimed): an accepted datagram (here the one that starts the
\* session) is sent on, unmodified, to the laser-facing socket, and there are
\* never more ACKs than forwarded datagrams.
C13_ForwardThenAck ==
    /\ [](refused # <<>> =>
            <>(laser_out # <<>> /\ laser_out[1] = refused[1].data))
    /\ [](AcksSent <= Len(laser_out))

\* C14 (as claimed): the sink of the session holds the payloads of its
\* accepted datagrams in arrival order: the payload of the datagram that
\* starts the session, and after it the payload of the owner's next datagram.
C14_PersistedStream ==
    /\ [](refused # <<>> =>
            <>(files # <<>> /\ IsPrefix(refused[1].data, files[1].content)))
    /\ []((Started /\ Len(refused) >= 2 /\ refused[2].addr = refused[1].addr
             /\ refused[2].at - refused[1].at <= BUSY_TIMEOUT) =>
            <>(files # <<>>
                 /\ IsPrefix(refused[1].data \o refused[2].data,
                             files[1].content)))

\* C15 (as claimed): the owner's datagrams refresh the last-activity time: A
\* starts a session, sends again within the timeout, and a datagram of B that
\* comes within the timeout of A's second datagram, though later than the
\* timeout after the first, is no takeover: it is answered with NACK.
C15_ActivityRefresh ==
    [](( /\ Started
         /\ Len(refused) >= 3
         /\ refused[2].addr = refused[1].addr
         /\ ~HasEndToken(refused[2].data)
         /\ refused[3].addr # refused[1].addr
         /\ refused[2].at - refused[1].at <= BUSY_TIMEOUT
         /\ refused[3].at - refused[2].at <= BUSY_TIMEOUT
         /\ refused[3].at - refused[1].at > BUSY_TIMEOUT) =>
          <>Answered(refused[3].addr, NACK))

\* C19 (as claimed): every datagram sent to the relay gets one response, sent
\* to its sender (the i-th response answers the i-th datagram), and there is
\* never a response without a datagram.
C19_OneResponse ==
    /\ \A i \in 1..MaxDatagrams :
         [](Len(refused) >= i =>
              <>(/\ Len(replies) >= i
                 /\ replies[i].to = refused[i].addr
                 /\ replies[i].byte \in {ACK, NACK}))
    /\ [](Len(replies) <= Len(refused))

(***************************************************************************)
(* Sender properties: end of an attempt, termination                       *)
(***************************************************************************)
\* a timeout, an empty response, or one byte that is neither 0xc6 nor 0x46
NonFatal(r) ==
    \/ r.exc
    \/ Len(r.bytes) = 0
    \/ (Len(r.bytes) = 1 /\ r.bytes[1] \notin {ACK, NACK})

\* C16: after a timeout, an empty response or an unknown byte send returns:
\* no IOError, no retransmission of that chunk (the next datagram, if any, is
\* the next chunk), and write stands after the chunk; the first chunk is no
\* exception.  (An OSError after such a response is raised by the send of the
\* next chunk, with write standing after this one.)
C16_NonFatalEnd ==
    \A i \in 1..Len(resp) :
        NonFatal(resp[i]) =>
            /\ Len(sent) > i => sentAt[i + 1] = sentAt[i] + Len(Payload(sent[i]))
            /\ i = Len(resp) =>
                 /\ pc \in {"write", "recv", "done", "OSError"}
                 /\ pc \in {"write", "OSError"} =>
                      /\ Len(sent) = i
                      /\ start = sentAt[i] + Len(Payload(sent[i]))
C16_Witness ==
    /\ pc = "done"
    /\ resp = <<Timeout, Got(<<>>), Got(<<UnknownByte>>)>>
    /\ sentAt = <<0, 1, 2>>

\* C20 (as claimed): with a peer that does not NACK the first chunk forever,
\* write ends, by returning or by raising IOError; and only the first chunk is
\* ever transmitted more than once.
C20_TerminationAsClaimed ==
    /\ <>(pc \in {"done", "IOError"})
    /\ [](\A i \in 1..Len(sent) : \A j \in 1..Len(sent) :
            (i # j /\ sentAt[i] = sentAt[j]) => sentAt[i] = 0)

\* C20 (amended): with a peer that does not NACK the first chunk forever,
\* write ends, by returning, by raising IOError or by the OSError of a
\* sock.send that failed; and only the first chunk is ever transmitted more
\* than once.
C20_Termination ==
    /\ <>(pc \in {"done", "IOError", "OSError"})
    /\ [](\A i \in 1..Len(sent) : \A j \in 1..Len(sent) :
            (i # j /\ sentAt[i] = sentAt[j]) => sentAt[i] = 0)
C20_Witness ==
    /\ pc = "OSError"
    /\ Len(data) = 3
    /\ mtu = 1
    /\ Len(slept) = 2
    /\ Len(sent) = 4
    /\ start = 2

====
